---- MODULE Spec2Model ----
(***************************************************************************)
(* Reciprocal analysis of RELION 3D classification jobs                    *)
(* (src/reciprocal_analysis.py): the STAR parser read_star_file, the       *)
(* per-class writer write_per_class_star and the batch pipeline main.      *)
(*                                                                         *)
(* Text is modelled as sequences of one-character strings, a file as the   *)
(* sequence of its lines (without the newline).  A DataFrame is a record   *)
(* [columns, rows]; a cell is [k |-> "str", s |-> chars],                  *)
(* [k |-> "int", i |-> n] or [k |-> "none"] (pandas' padding value).       *)
(***************************************************************************)
EXTENDS Integers, Sequences, FiniteSets, TLC

\* ------------------------------------------------------------ bounds
\* lines fed to one read_star_file call in SpecParser
MaxLines == 8
\* length of the --jobs list
MaxJobs == 3

\* ------------------------------------------------------------ str helpers
Digits == <<"0", "1", "2", "3", "4", "5", "6", "7", "8", "9">>

IsDigit(c) == \E d \in 1..10 : Digits[d] = c

DigitVal(c) == (CHOOSE d \in 1..10 : Digits[d] = c) - 1

\* str.startswith
StartsWith(s, p) == Len(s) >= Len(p) /\ SubSeq(s, 1, Len(p)) = p

RECURSIVE LStripCh(_, _)
\* str.lstrip(c) for a single character c
LStripCh(s, c) == IF s # <<>> /\ Head(s) = c THEN LStripCh(Tail(s), c) ELSE s

RECURSIVE RStripCh(_, _)
RStripCh(s, c) ==
    IF s # <<>> /\ s[Len(s)] = c THEN RStripCh(SubSeq(s, 1, Len(s) - 1), c) ELSE s

\* str.strip(): the only whitespace of the modelled alphabet is the space
Strip(s) == RStripCh(LStripCh(s, " "), " ")

RECURSIVE SplitAcc(_, _, _)
SplitAcc(s, cur, acc) ==
    IF s = <<>> THEN (IF cur = <<>> THEN acc ELSE Append(acc, cur))
    ELSE IF Head(s) = " "
         THEN SplitAcc(Tail(s), <<>>, IF cur = <<>> THEN acc ELSE Append(acc, cur))
         ELSE SplitAcc(Tail(s), Append(cur, Head(s)), acc)

\* str.split(): split on runs of whitespace, no empty tokens
Split(s) == SplitAcc(s, <<>>, <<>>)

RECURSIVE Join(_, _)
\* sep.join(tokens)
Join(tokens, sep) ==
    IF tokens = <<>> THEN <<>>
    ELSE IF Len(tokens) = 1 THEN Head(tokens)
    ELSE Head(tokens) \o sep \o Join(Tail(tokens), sep)

RECURSIVE FirstPiece(_, _)
\* s.split(c)[0]
FirstPiece(s, c) ==
    IF s = <<>> \/ Head(s) = c THEN <<>> ELSE <<Head(s)>> \o FirstPiece(Tail(s), c)

RECURSIVE Remove(_, _)
\* s.replace(p, "") for a non-empty p
Remove(s, p) ==
    IF s = <<>> THEN <<>>
    ELSE IF StartsWith(s, p) THEN Remove(SubSeq(s, Len(p) + 1, Len(s)), p)
    ELSE <<Head(s)>> \o Remove(Tail(s), p)

RECURSIVE NatToStr(_)
NatToStr(n) == IF n < 10 THEN <<Digits[n + 1]>> ELSE NatToStr(n \div 10) \o <<Digits[(n % 10) + 1]>>

\* str(n) / f"{n}" of an int
IntToStr(n) == IF n < 0 THEN <<"-">> \o NatToStr(-n) ELSE NatToStr(n)

RECURSIVE ZeroPad(_, _)
ZeroPad(s, w) == IF Len(s) >= w THEN s ELSE ZeroPad(<<"0">> \o s, w)

\* f"{n:03d}": sign first, then zeros up to a total width of 3
Fmt03d(n) ==
    IF n < 0 THEN <<"-">> \o ZeroPad(NatToStr(-n), 2) ELSE ZeroPad(NatToStr(n), 3)

\* the tokens Python's int() accepts (of the modelled alphabet): [+-]?digit+
IsIntStr(s) ==
    LET body == IF s # <<>> /\ Head(s) \in {"+", "-"} THEN Tail(s) ELSE s
    IN  body # <<>> /\ \A k \in 1..Len(body) : IsDigit(body[k])

RECURSIVE DigitsToNat(_, _)
DigitsToNat(s, acc) ==
    IF s = <<>> THEN acc ELSE DigitsToNat(Tail(s), 10 * acc + DigitVal(Head(s)))

\* int(s) for IsIntStr(s)
StrToInt(s) ==
    IF Head(s) = "-" THEN 0 - DigitsToNat(Tail(s), 0)
    ELSE IF Head(s) = "+" THEN DigitsToNat(Tail(s), 0)
    ELSE DigitsToNat(s, 0)

\* ------------------------------------------------------------ literals
DATA_PARTICLES == <<"d","a","t","a","_","p","a","r","t","i","c","l","e","s">>
LOOP_ == <<"l","o","o","p","_">>
rlnImageName == <<"r","l","n","I","m","a","g","e","N","a","m","e">>
rlnClassNumber == <<"r","l","n","C","l","a","s","s","N","u","m","b","e","r">>
VERSION_LINE == <<"#"," ","v","e","r","s","i","o","n"," ","5","0","0","0","1">>
JOB == <<"j","o","b">>
CLASS_ == <<"_","c","l","a","s","s">>
NONE_STR == <<"N","o","n","e">>

StrCell(s) == [k |-> "str", s |-> s]
IntCell(n) == [k |-> "int", i |-> n]
NoneCell == [k |-> "none"]

\* ------------------------------------------------------------ read_star_file
\* the locals of read_star_file before the first line
ParserStart == [in_particles |-> FALSE, in_loop |-> FALSE, headers |-> <<>>, data |-> <<>>]

\* one iteration of the loop over the file's lines
ParseLine(st, raw) ==
    LET line == Strip(raw) IN
    IF StartsWith(line, DATA_PARTICLES) THEN [st EXCEPT !.in_particles = TRUE]
    ELSE IF st.in_particles /\ StartsWith(line, LOOP_) THEN [st EXCEPT !.in_loop = TRUE]
    ELSE IF st.in_loop /\ StartsWith(line, <<"_">>)
         THEN [st EXCEPT !.headers = Append(@, LStripCh(Split(line)[1], "_"))]
    ELSE IF st.in_loop
         THEN IF line = <<>> \/ StartsWith(line, <<"#">>) THEN st
              ELSE IF Len(Split(line)) = Len(st.headers)
                   THEN [st EXCEPT !.data = Append(@, Split(line))]
                   ELSE st
    ELSE st

RECURSIVE ParseLines(_, _)
ParseLines(st, text) ==
    IF text = <<>> THEN st ELSE ParseLines(ParseLine(st, Head(text)), Tail(text))

RECURSIVE MaxRowLen(_)
MaxRowLen(rows) ==
    IF rows = <<>> THEN 0
    ELSE LET m == MaxRowLen(Tail(rows)) IN IF Len(Head(rows)) > m THEN Len(Head(rows)) ELSE m

\* pd.DataFrame(data, columns=headers) on a list of token lists: rows are
\* padded with None to the longest row; a column count different from that
\* width is a ValueError
PadRow(row, w) == [c \in 1..w |-> IF c <= Len(row) THEN StrCell(row[c]) ELSE NoneCell]

ColIndex(columns, name) == CHOOSE c \in 1..Len(columns) : columns[c] = name

HasCol(columns, name) == \E c \in 1..Len(columns) : columns[c] = name

\* df["rlnClassNumber"].astype(int), cell by cell
AsTypeInt(cell) == IF cell.k = "str" THEN IntCell(StrToInt(cell.s)) ELSE cell

\* the part of read_star_file after the loop: the result is
\* [ok |-> TRUE, df |-> DataFrame] or [ok |-> FALSE, err |-> exception]
FinishParse(st) ==
    IF st.headers = <<>> \/ st.data = <<>> THEN [ok |-> FALSE, err |-> "ValueError"]
    ELSE IF MaxRowLen(st.data) # Len(st.headers) THEN [ok |-> FALSE, err |-> "ValueError"]
    ELSE LET rows == [r \in 1..Len(st.data) |-> PadRow(st.data[r], Len(st.headers))] IN
         IF ~HasCol(st.headers, rlnImageName) THEN [ok |-> FALSE, err |-> "ValueError"]
         ELSE IF ~HasCol(st.headers, rlnClassNumber) THEN [ok |-> FALSE, err |-> "ValueError"]
         ELSE LET cc == ColIndex(st.headers, rlnClassNumber)
                  bad == {r \in 1..Len(rows) : rows[r][cc].k = "none" \/ ~IsIntStr(rows[r][cc].s)}
              IN
              IF bad # {}
                 THEN LET r == CHOOSE x \in bad : \A y \in bad : x <= y IN
                      [ok |-> FALSE,
                       err |-> IF rows[r][cc].k = "none" THEN "TypeError" ELSE "ValueError"]
              ELSE [ok |-> TRUE,
                    df |-> [columns |-> st.headers,
                            rows |-> [r \in 1..Len(rows) |->
                                        [rows[r] EXCEPT ![cc] = AsTypeInt(@)]]]]

read_star_file(text) == FinishParse(ParseLines(ParserStart, text))

\* ------------------------------------------------------------ write_per_class_star
\* sorted(df["rlnClassNumber"].unique()), as a set
ClassesOf(df) ==
    LET cc == ColIndex(df.columns, rlnClassNumber)
    IN  {df.rows[r][cc].i : r \in 1..Len(df.rows)}

\* df[df["rlnClassNumber"] == cls], rows kept in order
ClassRows(df, cls) ==
    LET cc == ColIndex(df.columns, rlnClassNumber)
    IN  SelectSeq(df.rows, LAMBDA row : row[cc].i = cls)

\* str(x) of one cell value
CellStr(cell) ==
    IF cell.k = "str" THEN cell.s
    ELSE IF cell.k = "int" THEN IntToStr(cell.i)
    ELSE NONE_STR

\* " ".join(str(x) for x in row.values)
RowLine(row) == Join([c \in 1..Len(row) |-> CellStr(row[c])], <<" ">>)

\* the lines written to one per-class file
PerClassText(df, cls) ==
    LET cls_df == ClassRows(df, cls) IN
    <<VERSION_LINE, <<>>, DATA_PARTICLES, <<>>, LOOP_>>
    \o [c \in 1..Len(df.columns) |-> <<"_">> \o df.columns[c] \o <<" ">>]
    \o [r \in 1..Len(cls_df) |-> RowLine(cls_df[r])]

\* f"job{job_number:03d}_class{cls}": the stem of a per-class file name and
\* the label of a matrix row or column
Label(job, cls) == JOB \o Fmt03d(job) \o CLASS_ \o IntToStr(cls)

\* ------------------------------------------------------------ parser harness
P1 == <<"p", "1">>
P2 == <<"p", "2">>
P3 == <<"p", "3">>

\* the lines a source file is made of in SpecParser
InputLines ==
    { DATA_PARTICLES,
      LOOP_,
      <<"_">> \o rlnImageName \o <<" ", "#", "1">>,
      <<"_">> \o rlnClassNumber \o <<" ">>,
      <<"_", "x">>,
      P1 \o <<" ", "1">>,
      P2 \o <<" ", "0", "2">>,
      P2 \o <<" ", "x">>,
      P3 \o <<" ", "1", " ", "e">>,
      <<"#", " ", "c">> }

VARIABLES st, nread, ppc, result, wcls, out_text, reparsed

pvars == <<st, nread, ppc, result, wcls, out_text, reparsed>>

\* a header line naming a column already declared (not fed to the parser:
\* column names of a source file are distinct)
RepeatsColumn(s, raw) ==
    LET line == Strip(raw) IN
    /\ s.in_loop
    /\ StartsWith(line, <<"_">>)
    /\ ~StartsWith(line, DATA_PARTICLES)
    /\ ~StartsWith(line, LOOP_)
    /\ HasCol(s.headers, LStripCh(Split(line)[1], "_"))

PInit ==
    /\ st = ParserStart
    /\ nread = 0
    /\ ppc = "reading"
    /\ result = [ok |-> FALSE, err |-> "none"]
    /\ wcls = 0
    /\ out_text = <<>>
    /\ reparsed = [ok |-> FALSE, err |-> "none"]

PIdle ==
    /\ st = ParserStart
    /\ nread = 0
    /\ ppc = "idle"
    /\ result = [ok |-> FALSE, err |-> "none"]
    /\ wcls = 0
    /\ out_text = <<>>
    /\ reparsed = [ok |-> FALSE, err |-> "none"]

\* read_star_file, one pass of `for line in f`
ReadLine ==
    /\ ppc = "reading"
    /\ nread < MaxLines
    /\ \E raw \in InputLines :
          /\ ~RepeatsColumn(st, raw)
          /\ st' = ParseLine(st, raw)
    /\ nread' = nread + 1
    /\ UNCHANGED <<ppc, result, wcls, out_text, reparsed>>

\* read_star_file, end of file: checks, DataFrame, return or raise
EndOfFile ==
    /\ ppc = "reading"
    /\ result' = FinishParse(st)
    /\ ppc' = "parsed"
    /\ UNCHANGED <<st, nread, wcls, out_text, reparsed>>

\* write_per_class_star, the file of one class of the parsed table
WriteClass ==
    /\ ppc = "parsed"
    /\ result.ok
    /\ \E cls \in ClassesOf(result.df) :
          /\ wcls' = cls
          /\ out_text' = PerClassText(result.df, cls)
    /\ ppc' = "written"
    /\ UNCHANGED <<st, nread, result, reparsed>>

\* read_star_file on the file just written
Reparse ==
    /\ ppc = "written"
    /\ reparsed' = read_star_file(out_text)
    /\ ppc' = "reparsed"
    /\ UNCHANGED <<st, nread, result, wcls, out_text>>

\* ------------------------------------------------------------ dict helpers
\* a dict is the sequence of its <<key, value>> items in insertion order
DictHas(d, key) == \E n \in 1..Len(d) : d[n][1] = key

DictGet(d, key) == d[CHOOSE n \in 1..Len(d) : d[n][1] = key][2]

DictSetAppend(d, key, val) == Append(d, <<key, val>>)

\* d[key] = val: an existing key keeps its position
DictSet(d, key, val) ==
    IF DictHas(d, key)
    THEN [n \in 1..Len(d) |-> IF d[n][1] = key THEN <<key, val>> ELSE d[n]]
    ELSE Append(d, <<key, val>>)

DictKeys(d) == {d[n][1] : n \in 1..Len(d)}

RECURSIVE Flatten(_)
Flatten(ss) == IF ss = <<>> THEN <<>> ELSE Head(ss) \o Flatten(Tail(ss))

RECURSIVE SortedSeq(_)
\* sorted(S) of a finite set of ints
SortedSeq(S) ==
    IF S = {} THEN <<>>
    ELSE LET m == CHOOSE x \in S : \A y \in S : x <= y
         IN  <<m>> \o SortedSeq(S \ {m})

\* ------------------------------------------------------------ main: inputs
JobIds == {2, 12, 1000}

StarHeader ==
    << DATA_PARTICLES, <<>>, LOOP_,
       <<"_">> \o rlnImageName \o <<" ", "#", "1">>,
       <<"_">> \o rlnClassNumber \o <<" ", "#", "2">> >>

FileA == StarHeader \o << P1 \o <<" ", "1">>, P2 \o <<" ", "1">>, P3 \o <<" ", "2">> >>
FileB == StarHeader \o << P2 \o <<" ", "1">>, P3 \o <<" ", "1">>, P1 \o <<" ", "2">> >>
FileC == StarHeader \o << P3 \o <<" ", "3">> >>
FileBad == StarHeader \o << P1 \o <<" ", "x">> >>

\* the run_it*_data.star files of the project and their contents
FileNames == {"run_it010_data.star", "run_it025_data.star", "run_it030_data.star",
              "run_it040_data.star"}

FileText(name) ==
    CASE name = "run_it010_data.star" -> FileC
      [] name = "run_it025_data.star" -> FileA
      [] name = "run_it030_data.star" -> FileB
      [] name = "run_it040_data.star" -> FileBad

\* what glob finds in one job directory, sorted by name
FileChoices ==
    { <<>>, <<"run_it010_data.star">>, <<"run_it025_data.star">>,
      <<"run_it010_data.star", "run_it030_data.star">>,
      <<"run_it025_data.star", "run_it040_data.star">> }

\* read_star_file of every file of the project
Parsed == [name \in FileNames |-> read_star_file(FileText(name))]

RECURSIVE SeqsUpTo(_, _)
\* the non-empty sequences over S of length at most n
SeqsUpTo(S, n) ==
    IF n = 0 THEN {}
    ELSE LET shorter == SeqsUpTo(S, n - 1)
         IN  {<<x>> : x \in S} \cup shorter \cup {Append(q, x) : q \in shorter, x \in S}

VARIABLES jobs, class3d, files, pc, outdir, i, job_class_particles, per_class_star,
          log, count_matrix, fraction_matrix, saved, pysankey_rows, err

mvars == <<jobs, class3d, files, pc, outdir, i, job_class_particles, per_class_star,
           log, count_matrix, fraction_matrix, saved, pysankey_rows, err>>

vars == <<mvars, pvars>>

MStart ==
    /\ pc = "start"
    /\ outdir = FALSE
    /\ i = 1
    /\ job_class_particles = <<>>
    /\ per_class_star = <<>>
    /\ log = <<>>
    /\ count_matrix = <<>>
    /\ fraction_matrix = <<>>
    /\ saved = {}
    /\ pysankey_rows = <<>>
    /\ err = "none"

MInit ==
    /\ jobs \in SeqsUpTo(JobIds, MaxJobs)
    /\ class3d \in BOOLEAN
    /\ files \in [JobIds -> FileChoices]
    \* job directories live under Class3D; those of jobs not requested are
    \* never looked at and are left empty
    /\ (~class3d => \A j \in JobIds : files[j] = <<>>)
    /\ \A j \in JobIds : (\A m \in 1..Len(jobs) : jobs[m] # j) => files[j] = <<>>
    /\ MStart

MIdle ==
    /\ jobs = <<>>
    /\ class3d = FALSE
    /\ files = [j \in JobIds |-> <<>>]
    /\ MStart

\* ------------------------------------------------------------ main: steps
\* os.makedirs(args.outdir, exist_ok=True)
MakeOutdir ==
    /\ pc = "start"
    /\ outdir' = TRUE
    /\ pc' = "class3d"
    /\ UNCHANGED <<jobs, class3d, files, i, job_class_particles, per_class_star, log,
                   count_matrix, fraction_matrix, saved, pysankey_rows, err, pvars>>

\* if not os.path.isdir(class3d_dir): raise FileNotFoundError
CheckClass3D ==
    /\ pc = "class3d"
    /\ IF class3d THEN pc' = "jobs" /\ err' = err
                  ELSE pc' = "error" /\ err' = "FileNotFoundError"
    /\ UNCHANGED <<jobs, class3d, files, outdir, i, job_class_particles, per_class_star,
                   log, count_matrix, fraction_matrix, saved, pysankey_rows, pvars>>

\* class_dict of one table: class -> set of rlnImageName values, classes sorted
ClassDict(df) ==
    LET ic == ColIndex(df.columns, rlnImageName)
        cs == SortedSeq(ClassesOf(df))
    IN  [n \in 1..Len(cs) |->
            LET cls_df == ClassRows(df, cs[n])
            IN  <<cs[n], {cls_df[r][ic] : r \in 1..Len(cls_df)}>>]

RECURSIVE WriteFiles(_, _, _, _)
\* write_per_class_star: open(filename, "w") for each class, in sorted order
WriteFiles(disk, df, job, cs) ==
    IF cs = <<>> THEN disk
    ELSE WriteFiles(DictSet(disk, Label(job, Head(cs)), PerClassText(df, Head(cs))),
                    df, job, Tail(cs))

\* the "Written per-class STAR" lines of one write_per_class_star call
WrittenLog(df, job) ==
    LET cs == SortedSeq(ClassesOf(df))
    IN  [n \in 1..Len(cs) |-> [ev |-> "written", job |-> job, name |-> Label(job, cs[n])]]

ProcessJobSkipsMalformed ==
    /\ pc = "jobs"
    /\ i <= Len(jobs)
    /\ LET job == jobs[i]
           star_candidates == files[job]
       IN  IF star_candidates = <<>>
           THEN /\ log' = Append(log, [ev |-> "warning", job |-> job, name |-> <<>>])
                /\ i' = i + 1
                /\ UNCHANGED <<pc, err, per_class_star, job_class_particles>>
           ELSE LET last_star == star_candidates[Len(star_candidates)]
                    r == Parsed[last_star]
                    using == [ev |-> "using", job |-> job, name |-> <<>>]
                IN  IF ~r.ok
                    THEN /\ log' = Append(log, using)
                         /\ i' = i + 1
                         /\ UNCHANGED <<pc, err, per_class_star, job_class_particles>>
                    ELSE /\ log' = Append(log, using) \o WrittenLog(r.df, job)
                         /\ per_class_star' =
                                WriteFiles(per_class_star, r.df, job, SortedSeq(ClassesOf(r.df)))
                         /\ job_class_particles' =
                                DictSet(job_class_particles, job, ClassDict(r.df))
                         /\ i' = i + 1
                         /\ UNCHANGED <<pc, err>>
    /\ UNCHANGED <<jobs, class3d, files, outdir, count_matrix, fraction_matrix, saved,
                   pysankey_rows, pvars>>

\* one pass of `for job in args.jobs`
ProcessJob ==
    /\ pc = "jobs"
    /\ i <= Len(jobs)
    /\ LET job == jobs[i]
           star_candidates == files[job]
       IN  IF star_candidates = <<>>
           THEN /\ log' = Append(log, [ev |-> "warning", job |-> job, name |-> <<>>])
                /\ i' = i + 1
                /\ UNCHANGED <<pc, err, per_class_star, job_class_particles>>
           ELSE LET last_star == star_candidates[Len(star_candidates)]
                    r == Parsed[last_star]
                    using == [ev |-> "using", job |-> job, name |-> <<>>]
                IN  IF ~r.ok
                    THEN /\ log' = Append(log, using)
                         /\ pc' = "error"
                         /\ err' = r.err
                         /\ UNCHANGED <<i, per_class_star, job_class_particles>>
                    ELSE /\ log' = Append(log, using) \o WrittenLog(r.df, job)
                         /\ per_class_star' =
                                WriteFiles(per_class_star, r.df, job, SortedSeq(ClassesOf(r.df)))
                         /\ job_class_particles' =
                                DictSet(job_class_particles, job, ClassDict(r.df))
                         /\ i' = i + 1
                         /\ UNCHANGED <<pc, err>>
    /\ UNCHANGED <<jobs, class3d, files, outdir, count_matrix, fraction_matrix, saved,
                   pysankey_rows, pvars>>

TooFewJobsOffByOne(jcp) == Len(jcp) < 1

\* len(job_class_particles) < 2
TooFewJobs(jcp) == Len(jcp) < 2

\* if len(job_class_particles) < 2: raise RuntimeError
CheckJobs ==
    /\ pc = "jobs"
    /\ i > Len(jobs)
    /\ IF TooFewJobs(job_class_particles)
       THEN pc' = "error" /\ err' = "RuntimeError"
       ELSE pc' = "matrices" /\ err' = err
    /\ UNCHANGED <<jobs, class3d, files, outdir, i, job_class_particles, per_class_star,
                   log, count_matrix, fraction_matrix, saved, pysankey_rows, pvars>>

\* ------------------------------------------------------------ main: matrices
\* the (label_a, label_b, particles_a, particles_b) visited by the four
\* nested loops, in visiting order; a job is not compared with itself
CrossPairs(jcp) ==
    Flatten([a \in 1..Len(jcp) |->
      Flatten([ca \in 1..Len(jcp[a][2]) |->
        Flatten([b \in 1..Len(jcp) |->
          IF jcp[a][1] = jcp[b][1] THEN <<>>
          ELSE [cb \in 1..Len(jcp[b][2]) |->
                  [la |-> Label(jcp[a][1], jcp[a][2][ca][1]),
                   lb |-> Label(jcp[b][1], jcp[b][2][cb][1]),
                   pa |-> jcp[a][2][ca][2],
                   pb |-> jcp[b][2][cb][2]]]])])])

CountUnion(pa, pb) == Cardinality(pa \cup pb)

\* count = len(particles_a & particles_b)
Count(pa, pb) == Cardinality(pa \cap pb)

\* frac = count / len(particles_a) if particles_a else 0.0, as num/den
Frac(pa, pb) ==
    IF pa # {} THEN [num |-> Count(pa, pb), den |-> Cardinality(pa)]
    ELSE [num |-> 0, den |-> 1]

MatrixSetFreshRow(m, la, lb, v) == DictSet(m, la, <<<<lb, v>>>>)

\* matrix[label_a][label_b] = v on a defaultdict(dict)
MatrixSet(m, la, lb, v) ==
    DictSet(m, la, DictSet(IF DictHas(m, la) THEN DictGet(m, la) ELSE <<>>, lb, v))

RECURSIVE FillCounts(_, _)
FillCounts(m, ps) ==
    IF ps = <<>> THEN m
    ELSE FillCounts(MatrixSet(m, Head(ps).la, Head(ps).lb, Count(Head(ps).pa, Head(ps).pb)),
                    Tail(ps))

RECURSIVE FillFracs(_, _)
FillFracs(m, ps) ==
    IF ps = <<>> THEN m
    ELSE FillFracs(MatrixSet(m, Head(ps).la, Head(ps).lb, Frac(Head(ps).pa, Head(ps).pb)),
                   Tail(ps))

\* the loops that fill count_matrix and fraction_matrix
ComputeMatrices ==
    /\ pc = "matrices"
    /\ LET ps == CrossPairs(job_class_particles)
       IN  /\ count_matrix' = FillCounts(<<>>, ps)
           /\ fraction_matrix' = FillFracs(<<>>, ps)
    /\ pc' = "save"
    /\ UNCHANGED <<jobs, class3d, files, outdir, i, job_class_particles, per_class_star,
                   log, saved, pysankey_rows, err, pvars>>

\* count_df.to_csv, frac_df.to_csv
SaveMatrices ==
    /\ pc = "save"
    /\ saved' = saved \cup {"intersection_counts.csv", "intersection_fractions.csv"}
    /\ pc' = "edges"
    /\ UNCHANGED <<jobs, class3d, files, outdir, i, job_class_particles, per_class_star,
                   log, count_matrix, fraction_matrix, pysankey_rows, err, pvars>>

\* int(label.split("_")[0].replace("job", ""))
JobNo(label) == StrToInt(Remove(FirstPiece(label, "_"), JOB))

SkipEdgeSelfOnly(jobA_no, jobB_no) == jobA_no = jobB_no

\* the reciprocal / redundant pairs the edge list skips
SkipEdge(jobA_no, jobB_no) == jobA_no >= jobB_no

\* the (jobA_class, jobB_class, count) triples of count_matrix kept, in order
KeptTriples(cm) ==
    Flatten([a \in 1..Len(cm) |->
      Flatten([b \in 1..Len(cm[a][2]) |->
        IF SkipEdge(JobNo(cm[a][1]), JobNo(cm[a][2][b][1])) THEN <<>>
        ELSE << <<cm[a][1], cm[a][2][b][1], cm[a][2][b][2]>> >>])])

\* pysankey_rows: [idx, jobA_class, jobB_class, count], idx counting from 0
EdgeRows(cm) ==
    LET kept == KeptTriples(cm)
    IN  [n \in 1..Len(kept) |-> <<n - 1, kept[n][1], kept[n][2], kept[n][3]>>]

\* the edge-list loop and pysankey_df.to_csv
SaveEdges ==
    /\ pc = "edges"
    /\ pysankey_rows' = EdgeRows(count_matrix)
    /\ saved' = saved \cup {"pysankey_input.csv"}
    /\ pc' = "done"
    /\ UNCHANGED <<jobs, class3d, files, outdir, i, job_class_particles, per_class_star,
                   log, count_matrix, fraction_matrix, err, pvars>>

\* ------------------------------------------------------------ specifications
Init == MInit /\ PIdle

Next ==
    \/ MakeOutdir
    \/ CheckClass3D
    \/ ProcessJob
    \/ CheckJobs
    \/ ComputeMatrices
    \/ SaveMatrices
    \/ SaveEdges

\* one run of main
Spec == Init /\ [][Next]_vars

ParserInit == PInit /\ MIdle

ParserNext ==
    \/ (ReadLine /\ UNCHANGED mvars)
    \/ (EndOfFile /\ UNCHANGED mvars)
    \/ (WriteClass /\ UNCHANGED mvars)
    \/ (Reparse /\ UNCHANGED mvars)

\* read_star_file on any file of at most MaxLines lines, then
\* write_per_class_star on its table and read_star_file on what was written
SpecParser == ParserInit /\ [][ParserNext]_vars

\* ------------------------------------------------------------ properties of main
MHas(m, la, lb) == DictHas(m, la) /\ DictHas(DictGet(m, la), lb)

MGet(m, la, lb) == DictGet(DictGet(m, la), lb)

HasCandidates(job) == files[job] # <<>>

\* the positions, among the first n of the job list, whose job has an iteration file
LocatedAt(n) == {m \in 1..n : m <= Len(jobs) /\ HasCandidates(jobs[m])}

\* the job ids at those positions
Located(n) == {jobs[m] : m \in LocatedAt(n)}

LogCount(ev) == Cardinality({n \in 1..Len(log) : log[n].ev = ev})

MatricesBuilt == pc \in {"save", "edges", "done"}

\* [job, cls, set] of every class of every parsed job
ClassSets ==
    UNION {{[job |-> job_class_particles[a][1],
             cls |-> job_class_particles[a][2][c][1],
             set |-> job_class_particles[a][2][c][2]] :
                c \in 1..Len(job_class_particles[a][2])} :
           a \in 1..Len(job_class_particles)}

LabelOf(x) == Label(x.job, x.cls)

\* C1: once the matrices are built (at least two parsed jobs), both hold an
\* entry (labelA, labelB) for every class of job A and class of job B with
\* A # B, and none for two labels of one job; the count is |setA \cap setB|,
\* the fraction is count / |setA| (0 for an empty setA), so
\* 0 <= count <= |setA| and the fraction is in [0, 1].
C1_CrossJobEntries ==
    MatricesBuilt =>
        /\ Len(job_class_particles) >= 2
        /\ \A x \in ClassSets : \A y \in ClassSets :
              IF x.job # y.job
              THEN /\ MHas(count_matrix, LabelOf(x), LabelOf(y))
                   /\ MHas(fraction_matrix, LabelOf(x), LabelOf(y))
                   /\ LET n == MGet(count_matrix, LabelOf(x), LabelOf(y))
                          f == MGet(fraction_matrix, LabelOf(x), LabelOf(y))
                      IN  /\ n = Cardinality(x.set \cap y.set)
                          /\ 0 <= n /\ n <= Cardinality(x.set)
                          /\ IF x.set = {} THEN f.num = 0
                             ELSE f.num = n /\ f.den = Cardinality(x.set)
                          /\ 0 <= f.num /\ f.num <= f.den /\ f.den > 0
              ELSE /\ ~MHas(count_matrix, LabelOf(x), LabelOf(y))
                   /\ ~MHas(fraction_matrix, LabelOf(x), LabelOf(y))
        /\ \A a \in 1..Len(count_matrix) :
              /\ \E x \in ClassSets : LabelOf(x) = count_matrix[a][1]
              /\ \A b \in 1..Len(count_matrix[a][2]) :
                    \E y \in ClassSets : LabelOf(y) = count_matrix[a][2][b][1]

\* a finished run over three jobs given in descending order with a partial
\* overlap (0 < count < |setA|) and an empty overlap
C1_Witness ==
    /\ pc = "done"
    /\ Len(job_class_particles) = 3
    /\ jobs[1] > jobs[2]
    /\ \E x \in ClassSets : \E y \in ClassSets :
          /\ x.job # y.job
          /\ MGet(fraction_matrix, LabelOf(x), LabelOf(y)).num > 0
          /\ MGet(fraction_matrix, LabelOf(x), LabelOf(y)).num
                < MGet(fraction_matrix, LabelOf(x), LabelOf(y)).den
    /\ \E x \in ClassSets : \E y \in ClassSets :
          x.job # y.job /\ MGet(count_matrix, LabelOf(x), LabelOf(y)) = 0

\* C2: for every entry (A, B) of the count matrix the entry (B, A) exists
\* and holds the same count, whatever the number and order of the jobs.
C2_CountSymmetric ==
    MatricesBuilt =>
        \A a \in 1..Len(count_matrix) : \A b \in 1..Len(count_matrix[a][2]) :
            LET la == count_matrix[a][1]
                lb == count_matrix[a][2][b][1]
            IN  /\ MHas(count_matrix, lb, la)
                /\ MGet(count_matrix, lb, la) = count_matrix[a][2][b][2]

\* three jobs, not requested in ascending order, with a non-zero count and
\* fractions that differ between the two directions
C2_Witness ==
    /\ MatricesBuilt
    /\ Len(job_class_particles) = 3
    /\ jobs[1] > jobs[Len(jobs)]
    /\ \E x \in ClassSets : \E y \in ClassSets :
          /\ x.job # y.job
          /\ MGet(count_matrix, LabelOf(x), LabelOf(y)) > 0
          /\ MGet(fraction_matrix, LabelOf(x), LabelOf(y))
                # MGet(fraction_matrix, LabelOf(y), LabelOf(x))

RowsFor(la, lb) ==
    {n \in 1..Len(pysankey_rows) : pysankey_rows[n][2] = la /\ pysankey_rows[n][3] = lb}

\* C3: the edge list holds exactly one row per unordered pair of labels of
\* distinct jobs: the row from the smaller job number to the larger one,
\* once, and no row in the other direction, also when the count is 0; the
\* row carries the count and the ids count from 0.
C3_OneRowPerPair ==
    pc = "done" =>
        /\ \A x \in ClassSets : \A y \in ClassSets :
              /\ x.job < y.job =>
                    /\ Cardinality(RowsFor(LabelOf(x), LabelOf(y))) = 1
                    /\ RowsFor(LabelOf(y), LabelOf(x)) = {}
                    /\ \A n \in RowsFor(LabelOf(x), LabelOf(y)) :
                          pysankey_rows[n][4] = Cardinality(x.set \cap y.set)
              /\ x.job = y.job => RowsFor(LabelOf(x), LabelOf(y)) = {}
        /\ \A n \in 1..Len(pysankey_rows) :
              /\ pysankey_rows[n][1] = n - 1
              /\ \E x \in ClassSets : LabelOf(x) = pysankey_rows[n][2]
              /\ \E y \in ClassSets : LabelOf(y) = pysankey_rows[n][3]

\* jobs requested in descending order, one of them numbered above 999, and
\* a row of count 0 in the edge list
C3_Witness ==
    /\ pc = "done"
    /\ jobs[1] > jobs[2]
    /\ 1000 \in DictKeys(job_class_particles)
    /\ \E n \in 1..Len(pysankey_rows) : pysankey_rows[n][4] = 0
    /\ \E n \in 1..Len(pysankey_rows) : pysankey_rows[n][4] > 0

\* C4: when Class3D is missing, the FileNotFoundError is raised before any
\* output directory is created: no state has the output directory created
\* and the FileNotFoundError raised.
C4_NoOutdirBeforeMissingResource == ~(err = "FileNotFoundError" /\ outdir)

\* C5: a job without iteration file is skipped (a warning, the run goes on
\* with the next job, nothing else changes); and once every job has been
\* processed, fewer than two located jobs make the run fail with
\* RuntimeError, no matrix or edge-list file written.
C5_SkipAndTooFew ==
    [][ /\ (pc = "jobs" /\ i <= Len(jobs) /\ ~HasCandidates(jobs[i])) =>
              /\ pc' = "jobs"
              /\ i' = i + 1
              /\ err' = "none"
              /\ log' = Append(log, [ev |-> "warning", job |-> jobs[i], name |-> <<>>])
              /\ UNCHANGED <<job_class_particles, per_class_star, saved>>
        /\ (pc = "jobs" /\ i > Len(jobs) /\ Cardinality(Located(Len(jobs))) < 2) =>
              /\ pc' = "error"
              /\ err' = "RuntimeError"
              /\ saved' = {}
              /\ count_matrix' = <<>> /\ fraction_matrix' = <<>> /\ pysankey_rows' = <<>>
        /\ (pc = "error" /\ err = "RuntimeError") => UNCHANGED vars
        /\ (pc = "jobs" /\ i > Len(jobs) /\ Cardinality(Located(Len(jobs))) >= 2) =>
              pc' = "matrices"
      ]_vars

\* one job was skipped for want of a file, one was parsed, the run failed
C5_Witness ==
    /\ pc = "error"
    /\ err = "RuntimeError"
    /\ LogCount("warning") >= 1
    /\ Len(job_class_particles) = 1
    /\ saved = {}

ParseFailed == err \in {"ValueError", "TypeError"}

\* the labels of the per-class files of the located jobs among the first n
FilesOfFirst(n) ==
    UNION {{Label(jobs[m], c) :
              c \in ClassesOf(Parsed[files[jobs[m]][Len(files[jobs[m]])]].df)} :
           m \in LocatedAt(n)}

\* C9: a malformed file of the k-th job aborts the run: the job loop never
\* moves past a malformed file, and in the aborted run the last thing done
\* is the read of job k, no later job is read or warned about, the files on
\* disk are the per-class files of the jobs before k, and no matrix or
\* edge-list file exists.
C9_ParseErrorAborts ==
    /\ \A m \in LocatedAt(i - 1) : Parsed[files[jobs[m]][Len(files[jobs[m]])]].ok
    /\ ParseFailed =>
          /\ pc = "error"
          /\ i <= Len(jobs)
          /\ HasCandidates(jobs[i])
          /\ ~Parsed[files[jobs[i]][Len(files[jobs[i]])]].ok
          /\ log[Len(log)] = [ev |-> "using", job |-> jobs[i], name |-> <<>>]
          /\ LogCount("using") = Cardinality(LocatedAt(i))
          /\ LogCount("warning") = i - Cardinality(LocatedAt(i))
          /\ DictKeys(per_class_star) = FilesOfFirst(i - 1)
          /\ saved = {}
          /\ count_matrix = <<>> /\ fraction_matrix = <<>> /\ pysankey_rows = <<>>

\* the second of three jobs is malformed, the third has a file that is never read,
\* and the per-class files of the first job are on disk
C9_Witness ==
    /\ ParseFailed
    /\ i = 2
    /\ Len(jobs) = 3
    /\ HasCandidates(jobs[3])
    /\ jobs[3] # jobs[1] /\ jobs[3] # jobs[2]
    /\ per_class_star # <<>>

\* C10: a repeated job id is read and written once per occurrence but is
\* one key of job_class_particles: the jobs compared are the distinct
\* located ids, and a request of one distinct id that gets through the job
\* loop fails with RuntimeError and never completes.
C10_RepeatedJobId ==
    /\ (pc = "jobs" \/ (pc \notin {"start", "class3d"} /\ ~ParseFailed /\ err # "FileNotFoundError")) =>
          /\ LogCount("using") = Cardinality(LocatedAt(i - 1))
          /\ LogCount("written") =
                Cardinality(UNION {{<<m, c>> :
                    c \in ClassesOf(Parsed[files[jobs[m]][Len(files[jobs[m]])]].df)} :
                    m \in LocatedAt(i - 1)})
          /\ Len(job_class_particles) = Cardinality(Located(i - 1))
          /\ DictKeys(job_class_particles) = Located(i - 1)
    /\ MatricesBuilt =>
          {JobNo(count_matrix[a][1]) : a \in 1..Len(count_matrix)} = Located(Len(jobs))
    /\ (Cardinality({jobs[m] : m \in 1..Len(jobs)}) = 1) =>
          /\ pc \notin {"matrices", "save", "edges", "done"}
          /\ (pc = "error" /\ i > Len(jobs)) => err = "RuntimeError"

\* one id requested three times: read and written three times, one job
\* kept, RuntimeError
C10_Witness ==
    /\ pc = "error"
    /\ err = "RuntimeError"
    /\ Len(jobs) = 3
    /\ jobs[1] = jobs[2] /\ jobs[2] = jobs[3]
    /\ LogCount("using") = 3
    /\ Len(job_class_particles) = 1

\* ------------------------------------------------------------ properties of the parser
Returned == ppc # "reading" /\ result.ok

\* no header line was read after a data line had been accepted
HeadersBeforeData == \A r \in 1..Len(st.data) : Len(st.data[r]) = Len(st.headers)

\* C6: every Record of a returned Table has as many fields as the Table has
\* columns: each accepted data line has as many tokens as the Table has
\* column names, and no cell of the Table is a padding value.
C6_RecordWidth ==
    Returned =>
        /\ \A r \in 1..Len(st.data) : Len(st.data[r]) = Len(result.df.columns)
        /\ \A r \in 1..Len(result.df.rows) :
              /\ Len(result.df.rows[r]) = Len(result.df.columns)
              /\ \A c \in 1..Len(result.df.rows[r]) : result.df.rows[r][c].k # "none"

\* C7: writing one class of a returned Table and parsing the written text
\* gives a Table with the same column names in the same order and the
\* class's Records, in order and with equal field values.
C7_RoundTrip ==
    ppc = "reparsed" =>
        /\ reparsed.ok
        /\ reparsed.df.columns = result.df.columns
        /\ reparsed.df.rows = ClassRows(result.df, wcls)

\* the class-identifier token of an accepted data line (absent: <<>>)
ClassToken(row) ==
    LET cc == ColIndex(st.headers, rlnClassNumber)
    IN  IF cc <= Len(row) THEN row[cc] ELSE <<>>

\* the failure cases the parser's contract lists
ListedFailure ==
    \/ st.headers = <<>>
    \/ st.data = <<>>
    \/ ~HasCol(st.headers, rlnImageName)
    \/ ~HasCol(st.headers, rlnClassNumber)
    \/ \E r \in 1..Len(st.data) : ~IsIntStr(ClassToken(st.data[r]))

\* C8: the parser raises in each listed case (no header, which covers a
\* missing section or loop marker, no accepted row, a required column
\* absent, a class value that is not an integer) and returns a Table in
\* every other case.
C8_FailsExactlyWhenListed ==
    ppc # "reading" =>
        /\ (~st.in_particles \/ ~st.in_loop) => st.headers = <<>>
        /\ ListedFailure => ~result.ok
        /\ ~ListedFailure => result.ok

\* C6-C8 on the files whose header lines all come before the first data line
C6_HeadersFirst == HeadersBeforeData => C6_RecordWidth

C7_HeadersFirst == HeadersBeforeData => C7_RoundTrip

C8_HeadersFirst == HeadersBeforeData => C8_FailsExactlyWhenListed

====
